---- MODULE Spec2Model ----
(***************************************************************************)
(* A model of modelscope/pipelines/base.py: the Pipeline base class (model *)
(* binding, framework resolution, one-time device preparation, the         *)
(* __call__ / _process_single state machine) and DistributedPipeline (the  *)
(* worker pool, the instantiation broadcast and the forward broadcast).    *)
(*                                                                         *)
(* Specifications:                                                         *)
(*   SpecCtor    Pipeline.__init__ over all bounded constructor arguments  *)
(*   Spec        one caller invoking a constructed Pipeline on scalar,     *)
(*               list and dataset inputs                                   *)
(*   SpecPrepare several threads invoking one Pipeline / prepare_model     *)
(*   SpecDist    DistributedPipeline: construction, pool, invocation       *)
(***************************************************************************)
EXTENDS Naturals, Integers, Sequences, FiniteSets, TLC

(***************************************************************************)
(* Bounds of the model.                                                    *)
(***************************************************************************)
\* longest list of model handles handed to the constructor
MaxModels == 3
\* threads that may invoke one pipeline concurrently
NumThreads == 2
\* longest list or dataset handed to one invocation
MaxLen == 2
\* invocations one thread makes
MaxCalls == 2
\* largest world size of a distributed pipeline
MaxWorld == 3
\* time that passes in one step of the clock while a thread waits for the lock
TickLen == 300

\* the timeout of the lock acquisition in prepare_model
LockTimeout == 600

(***************************************************************************)
(* Model handles.  A handle is what the caller passes as `model`:          *)
(*   None   the default (no model)                                         *)
(*   empty  the empty string                                               *)
(*   str    a string that is kept as a string (a local directory)          *)
(*   hub    a string naming a hub path that is a model package             *)
(*   Model  an already constructed Model object                            *)
(*   other  any other truthy object (neither str nor Model)                *)
(* fw is the framework tag found in the configuration file of the handle's *)
(* directory ("na" when there is none).  The empty string names the        *)
(* working directory: its fw is what a configuration file there holds.     *)
(***************************************************************************)
FrameworkTags == {"torch", "tf"}

NoneH == [kind |-> "None", fw |-> "na"]

Handles ==
    {NoneH, [kind |-> "other", fw |-> "na"]}
      \cup [kind : {"empty"}, fw : FrameworkTags \cup {"na"}]
      \cup [kind : {"str", "hub", "Model"}, fw : FrameworkTags]

\* Python truthiness of a handle: None and '' are falsy
Truthy(h) == h.kind \notin {"None", "empty"}

\* sequences over S of length lo..hi
SeqsOf(S, lo, hi) == UNION {[1..n -> S] : n \in lo..hi}

\* the constructor's `model` argument: a single handle or a list of handles
\* one working directory: the empty strings of one list agree
OneCwd(hs) ==
    \A i, j \in 1..Len(hs) :
      hs[i].kind = "empty" /\ hs[j].kind = "empty" => hs[i].fw = hs[j].fw

CtorArgs ==
    [isList : {FALSE}, one : Handles, many : {<<>>}]
      \cup [isList : {TRUE}, one : {NoneH},
            many : {hs \in SeqsOf(Handles, 0, MaxModels) : OneCwd(hs)}]

(***************************************************************************)
(* Pipeline.initiate_single_model: a hub path that is a model package is   *)
(* loaded into a Model object; a Model passes through; any other truthy    *)
(* non-string raises ValueError; everything else is returned as it is.     *)
(***************************************************************************)
initiate_single_model(m) ==
    IF m.kind = "hub" THEN [ok |-> TRUE, val |-> [kind |-> "Model", fw |-> m.fw]]
    ELSE IF m.kind = "Model" THEN [ok |-> TRUE, val |-> m]
    ELSE IF m.kind = "other" THEN [ok |-> FALSE, val |-> m]
    ELSE [ok |-> TRUE, val |-> m]

(***************************************************************************)
(* Pipeline.initiate_multiple_models: the single-handle rule applied to    *)
(* each element in order; the first element that raises ends the loop.     *)
(***************************************************************************)
initiate_multiple_models(input_models) ==
    [ok  |-> \A i \in 1..Len(input_models) : initiate_single_model(input_models[i]).ok,
     val |-> [i \in 1..Len(input_models) |-> initiate_single_model(input_models[i]).val]]

(***************************************************************************)
(* Pipeline._get_framework: walk self.models in order; a Model gives its   *)
(* model_dir, a string is its own directory, anything else fails the       *)
(* assertion; the framework tag is read from the directory's configuration *)
(* file (reading fails when there is no such file).  After the loop the    *)
(* tags must all equal the first one, or ValueError is raised.             *)
(***************************************************************************)
RECURSIVE framework_loop(_, _, _)
framework_loop(ms, i, frameworks) ==
    IF i > Len(ms) THEN [err |-> "", frameworks |-> frameworks]
    ELSE IF ms[i].kind \notin {"Model", "str", "empty", "hub"}
         THEN [err |-> "AssertionError", frameworks |-> frameworks]
    ELSE IF ms[i].fw \notin FrameworkTags
         THEN [err |-> "ConfigFileError", frameworks |-> frameworks]
    ELSE framework_loop(ms, i + 1, Append(frameworks, ms[i].fw))

_get_framework(ms) ==
    LET r == framework_loop(ms, 1, <<>>) IN
    IF r.err # "" THEN [err |-> r.err, fw |-> "None"]
    ELSE IF ~(\A i \in 1..Len(r.frameworks) : r.frameworks[i] = r.frameworks[1])
         THEN [err |-> "ValueError:different frameworks", fw |-> "None"]
    ELSE [err |-> "", fw |-> r.frameworks[1]]

(***************************************************************************)
(* Inputs and task schemas.  A runtime value has a Python type ty; a tuple *)
(* has items, a dict has keys and, position by position, their items.      *)
(***************************************************************************)
Atom(ty, id)    == [ty |-> ty, id |-> id, keys |-> <<>>, items |-> <<>>]
TupleV(items)   == [ty |-> "tuple", id |-> 0, keys |-> <<>>, items |-> items]
DictV(ks, items) == [ty |-> "dict", id |-> 0, keys |-> ks, items |-> items]
NoElem          == Atom("NoneType", 0)

(***************************************************************************)
(* An input descriptor: a single type (a str naming the type), a tuple of  *)
(* type names, a dict of key -> type name, a list of such alternatives, or *)
(* anything else (a malformed definition).                                 *)
(***************************************************************************)
TypeD(name)      == [d |-> "str", name |-> name, keys |-> <<>>, items |-> <<>>]
TupleD(names)    == [d |-> "tuple", name |-> "", keys |-> <<>>, items |-> names]
DictD(ks, names) == [d |-> "dict", name |-> "", keys |-> ks, items |-> names]
ListD(alts)      == [d |-> "list", alts |-> alts]
BadD             == [d |-> "int", name |-> "", keys |-> <<>>, items |-> <<>>]

\* the registry's two tables (modelscope.pipeline_inputs.TASK_INPUTS and
\* modelscope.outputs.TASK_OUTPUTS), reduced to the shapes the code tells apart
TaskNames ==
    {"image-classification", "pair", "multi-modal", "alternatives", "two-dicts",
     "image-alternatives", "malformed"}

TASK_INPUTS(task) ==
    CASE task = "image-classification" -> TypeD("str")
      [] task = "pair"        -> TupleD(<<"str", "str">>)
      [] task = "multi-modal" -> DictD(<<"image", "text">>, <<"ndarray", "str">>)
      [] task = "alternatives" ->
             ListD(<<TypeD("str"), TupleD(<<"str", "str">>),
                     DictD(<<"image", "text">>, <<"ndarray", "str">>)>>)
      [] task = "two-dicts" ->
             ListD(<<DictD(<<"image">>, <<"ndarray">>), DictD(<<"image">>, <<"str">>)>>)
      [] task = "image-alternatives" ->
             ListD(<<TypeD("ndarray"), TupleD(<<"ndarray", "str">>)>>)
      [] OTHER -> BadD

OutputKeys == {"labels", "scores"}

TASK_OUTPUTS(task) == IF task = "image-classification" THEN OutputKeys ELSE {"labels"}

\* modelscope.pipeline_inputs.check_input_type: the value has the named type
check_input_type(input_type, input) == input.ty = input_type

\* Python's type(t) of a descriptor alternative
TypeOfDesc(t) == t.d

IndexOf(seq, x) == CHOOSE i \in 1..Len(seq) : seq[i] = x

Min(a, b) == IF a < b THEN a ELSE b

(***************************************************************************)
(* Pipeline._check_input, lines 229-263: "" when the input passes, else    *)
(* the exception raised.                                                   *)
(***************************************************************************)
\* lines 250-261, on the descriptor selected
check_selected(input_type, input) ==
    IF input_type.d = "str"
    THEN IF check_input_type(input_type.name, input) THEN "" ELSE "AssertionError:type"
    ELSE IF input_type.d = "tuple"
    THEN IF input.ty \notin {"tuple", "dict"}
         THEN IF input.ty = "str"
              \* zip() walks the characters of a string
              THEN IF \A i \in 1..Len(input_type.items) : input_type.items[i] = "str"
                   THEN "" ELSE "AssertionError:type"
              ELSE "TypeError:not iterable"
         ELSE IF \A i \in 1..Min(Len(input_type.items), Len(input.items)) :
                    check_input_type(input_type.items[i],
                                     IF input.ty = "tuple" THEN input.items[i]
                                     \* zip() over a dict walks its keys
                                     ELSE Atom("str", 0))
              THEN "" ELSE "AssertionError:type"
    ELSE IF input_type.d = "dict"
    THEN IF input.ty \notin {"dict", "tuple", "str"}
         THEN "TypeError:not a container"
         ELSE IF input.ty # "dict"
         \* `k in input` on a tuple or a string finds no key of the descriptor
         THEN ""
         ELSE IF \A i \in 1..Len(input_type.keys) :
                   (\E j \in 1..Len(input.keys) : input.keys[j] = input_type.keys[i])
                     => check_input_type(input_type.items[i],
                            input.items[IndexOf(input.keys, input_type.keys[i])])
              THEN "" ELSE "AssertionError:type"
    ELSE "ValueError:invalid input_type definition"

_check_input(task, input) ==
    IF task \notin TaskNames THEN ""
    ELSE LET input_type == TASK_INPUTS(task) IN
         IF input_type.d = "list"
         THEN LET hits == {i \in 1..Len(input_type.alts) :
                             TypeOfDesc(input_type.alts[i]) = input.ty}
              IN  IF hits = {} THEN "ValueError:one of following"
                  ELSE check_selected(
                         input_type.alts[CHOOSE i \in hits : \A j \in hits : i <= j],
                         input)
         ELSE check_selected(input_type, input)

(***************************************************************************)
(* Pipeline._check_output, lines 265-279: the required keys the result     *)
(* lacks; the check fails when there are any.                              *)
(***************************************************************************)
\* a check that is content when any one of the required keys is there
missing_keys_unless_any(task, keys) ==
    IF task \notin TaskNames \/ TASK_OUTPUTS(task) \cap keys # {}
    THEN {} ELSE TASK_OUTPUTS(task)

\* lines 272-276
missing_keys(task, keys) ==
    IF task \notin TaskNames THEN {} ELSE TASK_OUTPUTS(task) \ keys

_check_output(task, keys) ==
    IF missing_keys(task, keys) # {} THEN "ValueError:missing keys" ELSE ""

\* the condition of lines 103 and 164:
\*   self.model or (self.has_multiple_models and self.models[0])
HasBoundModel(m, ms, multi) == Truthy(m) \/ (multi /\ Truthy(ms[1]))

(***************************************************************************)
(* State.                                                                  *)
(***************************************************************************)
VARIABLES
    self,    \* the pipeline object: its attributes, by their names
    placed,  \* per bound model: how often it was moved to the device and
             \* switched to evaluation mode
    ctor,    \* Pipeline.__init__: its argument, its outcome
    th,      \* per thread: the invocation it is in
    mp,      \* the process's multiprocessing start method ("None" when unset)
    dist,    \* DistributedPipeline.__init__: its configuration, its position
    pool     \* the worker pool: its processes, its task queue, its results

distVars == <<mp, dist, pool>>
vars == <<self, placed, ctor, th, mp, dist, pool>>

Threads == 1..NumThreads

(***************************************************************************)
(* Pipeline.__init__ as a function of its arguments: the object as far as  *)
(* it was built, the exception raised ("" when none) and the number of     *)
(* calls of _get_framework.                                                *)
(***************************************************************************)
BlankObject ==
    [cls |-> "Pipeline", attrs |-> {}, model |-> NoneH, models |-> <<>>,
     has_multiple_models |-> FALSE, preprocessor |-> "None",
     framework |-> "None", _model_prepare |-> FALSE,
     lock |-> 0, _auto_collate |-> TRUE, group_key |-> "unregistered"]

\* lines 93-101
BindModels(obj, arg, preprocessor) ==
    IF ~arg.isList
    THEN LET r == initiate_single_model(arg.one) IN
         IF r.ok
         THEN [err |-> "",
               obj |-> [obj EXCEPT !.model = r.val, !.models = <<r.val>>,
                          !.has_multiple_models = (Len(<<r.val>>) > 1),
                          !.preprocessor = preprocessor,
                          !.attrs = @ \cup {"model", "models",
                                            "has_multiple_models", "preprocessor"}]]
         ELSE [err |-> "ValueError:model type", obj |-> obj]
    ELSE LET r == initiate_multiple_models(arg.many) IN
         IF r.ok
         THEN [err |-> "",
               obj |-> [obj EXCEPT !.model = NoneH, !.models = r.val,
                          !.has_multiple_models = (Len(r.val) > 1),
                          !.preprocessor = preprocessor,
                          !.attrs = @ \cup {"model", "models",
                                            "has_multiple_models", "preprocessor"}]]
         ELSE [err |-> "ValueError:model type",
               obj |-> [obj EXCEPT !.model = NoneH, !.attrs = @ \cup {"model"}]]

\* lines 103-106
ResolveFramework(obj) ==
    IF HasBoundModel(obj.model, obj.models, obj.has_multiple_models)
    THEN LET r == _get_framework(obj.models) IN
         IF r.err = ""
         THEN [err |-> "", calls |-> 1,
               obj |-> [obj EXCEPT !.framework = r.fw, !.attrs = @ \cup {"framework"}]]
         ELSE [err |-> r.err, calls |-> 1, obj |-> obj]
    ELSE [err |-> "", calls |-> 0,
          obj |-> [obj EXCEPT !.framework = "None", !.attrs = @ \cup {"framework"}]]

\* lines 87-112
PipelineInit(arg, preprocessor, auto_collate) ==
    LET o0 == [BlankObject EXCEPT !.attrs = {"device_name"}]
        b  == BindModels(o0, arg, preprocessor)
        f  == ResolveFramework(b.obj)
    IN  IF b.err # "" THEN [err |-> b.err, resolver_calls |-> 0, obj |-> b.obj]
        ELSE IF f.err # ""
             THEN [err |-> f.err, resolver_calls |-> f.calls, obj |-> f.obj]
        ELSE [err |-> "", resolver_calls |-> f.calls,
              obj |-> [f.obj EXCEPT
                         !._model_prepare = FALSE,
                         !.lock = 0,
                         !._auto_collate = auto_collate,
                         !.attrs = @ \cup {"_model_prepare", "_model_prepare_lock",
                                           "_auto_collate"}
                                     \cup (IF f.obj.framework = "torch"
                                           THEN {"device"} ELSE {})]]

(***************************************************************************)
(* One thread's invocation.                                                *)
(*   pc        where the thread is ("idle" outside any call)               *)
(*   via       "call" (__call__) or "direct" (prepare_model called itself) *)
(*   input     the argument of __call__                                    *)
(*   idx, cur  the element being processed and its position                *)
(*   out       the local `out` of _process_single                          *)
(*   ret       what __call__ returned: "dict", "list" or "generator"       *)
(*   output    the results handed to the caller so far                     *)
(*   itemlogs  per element taken up: the stages run and how each ended     *)
(*   waited    time spent waiting in acquire(timeout=600)                  *)
(*   acquired  what acquire returned                                       *)
(*   invoked   how many times the call has invoked the bound model         *)
(*   missing   the keys the last output check named as missing             *)
(***************************************************************************)
\* shard: the rank of the model shard a distributed forward result came from
NoShard == -1

NoOut == [src |-> NoElem, by |-> <<>>, keys |-> {}, shard |-> NoShard]

IdleThread ==
    [pc |-> "idle", via |-> "call", input |-> [kind |-> "scalar", elems |-> <<>>],
     idx |-> 0, cur |-> NoElem, out |-> NoOut, ret |-> "none", output |-> <<>>,
     itemlogs |-> <<>>, err |-> "", sanitized |-> 0, pulls |-> 0, waited |-> 0,
     acquired |-> FALSE, entered_prepared |-> FALSE, placing |-> 0, calls |-> 0,
     invoked |-> 0, missing |-> {}]

NoThreads == [t \in Threads |-> IdleThread]

\* no distributed pipeline, no pool
NoKwargs == [model_dir |-> "", master_ip |-> "", master_port |-> ""]

IdleWorker == [kind |-> "idle", i |-> 0, arg |-> 0]

NoPool ==
    [workers |-> {}, started_with |-> "None", wstate |-> <<>>, shard |-> <<>>,
     queue |-> <<>>, job |-> "none", results |-> <<>>, taken |-> <<>>,
     inst_count |-> <<>>, inst_args |-> <<>>, inst_state |-> <<>>,
     fwd_started |-> FALSE]

NoDist ==
    [pc |-> "none", world_size |-> 0, framework |-> "None", auto_collate |-> TRUE,
     has_model_field |-> FALSE, kwargs |-> NoKwargs, set_calls |-> 0]

Terminal == {"returned", "raised", "exhausted", "abandoned"}

Stages == <<"check_input", "preprocess", "forward", "postprocess", "check_output">>

\* the log of the element in hand, with one more stage run
Logged(r, stage, e) ==
    [r.itemlogs EXCEPT ![Len(r.itemlogs)] = Append(@, [stage |-> stage, ok |-> (e = "")])]

\* a _process_single that goes on to preprocess when the input check failed
after_stage_unchecked(stage, e, collate) ==
    IF e # "" /\ stage # "check_input" THEN "raised"
    ELSE CASE stage = "check_input"  -> "preprocess"
           [] stage = "preprocess"   -> IF collate THEN "collate" ELSE "forward"
           [] stage = "collate"      -> "forward"
           [] stage = "forward"      -> "postprocess"
           [] stage = "postprocess"  -> "check_output"
           [] OTHER                  -> "item_done"

\* _process_single, lines 214-227: an exception ends the item, otherwise
\* the next statement runs
AfterStage(stage, e, collate) ==
    IF e # "" THEN "raised"
    ELSE CASE stage = "check_input"  -> "preprocess"
           [] stage = "preprocess"   -> IF collate THEN "collate" ELSE "forward"
           [] stage = "collate"      -> "forward"
           [] stage = "forward"      -> "postprocess"
           [] stage = "postprocess"  -> "check_output"
           [] OTHER                  -> "item_done"

\* lines 217-220: collation runs for the tensor framework when asked for
Collates == self.framework = "torch" /\ self._auto_collate

\* a thread starts on element i of its input
TakeUp(r, i) ==
    [r EXCEPT !.idx = i, !.cur = r.input.elems[i], !.out = NoOut,
              !.itemlogs = Append(@, <<>>), !.pc = "check_input"]

(***************************************************************************)
(* The caller invokes the pipeline: __call__(input).                       *)
(***************************************************************************)
Call(t, inputs) ==
    /\ th[t].pc \in {"idle"} \cup Terminal
    /\ th[t].calls < MaxCalls
    /\ \E inp \in inputs :
         th' = [th EXCEPT ![t] = [IdleThread EXCEPT !.pc = "enter", !.via = "call",
                                    !.input = inp, !.calls = th[t].calls + 1]]
    /\ UNCHANGED <<self, placed, ctor, distVars>>

\* the caller calls prepare_model itself
CallPrepare(t) ==
    /\ th[t].pc \in {"idle"} \cup Terminal
    /\ th[t].calls < MaxCalls
    /\ th' = [th EXCEPT ![t] = [IdleThread EXCEPT !.pc = "acquire", !.via = "direct",
                                  !.entered_prepared = self._model_prepare,
                                  !.calls = th[t].calls + 1]]
    /\ UNCHANGED <<self, placed, ctor, distVars>>

(***************************************************************************)
(* __call__, lines 164-166: prepare the model unless it is prepared.       *)
(***************************************************************************)
Enter(t) ==
    /\ th[t].pc = "enter"
    /\ th' = [th EXCEPT ![t] =
                IF "model" \notin self.attrs
                THEN [@ EXCEPT !.pc = "raised", !.err = "AttributeError:model"]
                ELSE IF HasBoundModel(self.model, self.models, self.has_multiple_models)
                        /\ ~self._model_prepare
                THEN [@ EXCEPT !.pc = "acquire", !.entered_prepared = FALSE]
                ELSE [@ EXCEPT !.pc = "sanitize"]]
    /\ UNCHANGED <<self, placed, ctor, distVars>>

(***************************************************************************)
(* prepare_model, line 117: acquire(timeout=600).  The lock is taken when  *)
(* it is free; after 600 of waiting acquire returns False.  Either way the *)
(* method goes on: the value acquire returns is not looked at.             *)
(***************************************************************************)
Acquire(t) ==
    /\ th[t].pc = "acquire"
    /\ self.lock = 0
    /\ self' = [self EXCEPT !.lock = t]
    /\ th' = [th EXCEPT ![t] = [@ EXCEPT !.pc = "check_flag", !.acquired = TRUE]]
    /\ UNCHANGED <<placed, ctor, distVars>>

AfterTimeout(r) == [r EXCEPT !.pc = "check_flag", !.acquired = FALSE]

AcquireTimeout(t) ==
    /\ th[t].pc = "acquire"
    /\ self.lock # 0
    /\ th[t].waited >= LockTimeout
    /\ th' = [th EXCEPT ![t] = AfterTimeout(@)]
    /\ UNCHANGED <<self, placed, ctor, distVars>>

\* the thread that took the lock is between two statements that take no time
HolderIsQuick ==
    /\ th[self.lock].acquired
    /\ th[self.lock].pc \in {"check_flag", "set_flag", "release"}

\* time passes for the threads blocked in acquire.  It does so only while
\* the lock is held across something that lasts: the move of a model to the
\* device, or a call that ended without releasing the lock.
Tick ==
    /\ self.lock # 0
    /\ ~HolderIsQuick
    /\ \E t \in Threads : th[t].pc = "acquire" /\ th[t].waited < LockTimeout
    /\ th' = [t \in Threads |->
                IF th[t].pc = "acquire"
                THEN [th[t] EXCEPT !.waited = Min(@ + TickLen, LockTimeout)]
                ELSE th[t]]
    /\ UNCHANGED <<self, placed, ctor, distVars>>

(***************************************************************************)
(* prepare_model, lines 128-135: the placement body.                       *)
(***************************************************************************)
\* the models _prepare_single is applied to, by their index in self.models
PlacementTargets ==
    IF self.has_multiple_models THEN self.models ELSE <<self.model>>

\* a prepare_model that does not look at the flag
needs_prepare_always(prepared) == TRUE

\* line 128
NeedsPrepare(prepared) == ~prepared

CheckFlag(t) ==
    /\ th[t].pc = "check_flag"
    /\ th' = [th EXCEPT ![t] =
                IF NeedsPrepare(self._model_prepare)
                THEN IF self.framework = "torch"
                     THEN [@ EXCEPT !.pc = "placing", !.placing = 1]
                     ELSE [@ EXCEPT !.pc = "set_flag"]
                ELSE [@ EXCEPT !.pc = "release"]]
    /\ UNCHANGED <<self, placed, ctor, distVars>>

\* _prepare_single, lines 119-126: a torch module (or a wrapper of one) is
\* moved to the device and switched to evaluation mode; the move may raise
PlaceOne(t) ==
    /\ th[t].pc = "placing"
    /\ LET i == th[t].placing
           m == PlacementTargets[i]
           next == IF i >= Len(PlacementTargets) THEN "set_flag" ELSE "placing"
       IN  IF m.kind = "Model"
           THEN \E ok \in BOOLEAN :
                  IF ok
                  THEN /\ placed' = [placed EXCEPT ![i] = @ + 1]
                       /\ th' = [th EXCEPT ![t] = [@ EXCEPT !.placing = i + 1,
                                                             !.pc = next]]
                  ELSE /\ placed' = placed
                       /\ th' = [th EXCEPT ![t] = [@ EXCEPT !.pc = "raised",
                                                     !.err = "PlacementError"]]
           ELSE /\ placed' = placed
                /\ th' = [th EXCEPT ![t] = [@ EXCEPT !.placing = i + 1, !.pc = next]]
    /\ UNCHANGED <<self, ctor, distVars>>

\* line 136
SetFlag(t) ==
    /\ th[t].pc = "set_flag"
    /\ self' = [self EXCEPT !._model_prepare = TRUE]
    /\ th' = [th EXCEPT ![t] = [@ EXCEPT !.pc = "release"]]
    /\ UNCHANGED <<placed, ctor, distVars>>

\* line 137: release() frees the lock whoever took it, and raises
\* RuntimeError on a lock that is free
Release(t) ==
    /\ th[t].pc = "release"
    /\ IF self.lock # 0
       THEN /\ self' = [self EXCEPT !.lock = 0]
            /\ th' = [th EXCEPT ![t] =
                        [@ EXCEPT !.pc = IF th[t].via = "call" THEN "sanitize"
                                         ELSE "returned"]]
       ELSE /\ self' = self
            /\ th' = [th EXCEPT ![t] = [@ EXCEPT !.pc = "raised",
                                          !.err = "RuntimeError:release unlocked lock"]]
    /\ UNCHANGED <<placed, ctor, distVars>>

(***************************************************************************)
(* __call__, lines 172-176: the parameter-sanitization hook.               *)
(***************************************************************************)
Sanitize(t) ==
    /\ th[t].pc = "sanitize"
    /\ th' = [th EXCEPT ![t] = [@ EXCEPT !.sanitized = @ + 1, !.pc = "dispatch"]]
    /\ UNCHANGED <<self, placed, ctor, distVars>>

(***************************************************************************)
(* __call__, lines 178-188: dispatch on the input's shape.                 *)
(***************************************************************************)
\* a generator that runs the first element before it is asked for one
dispatch_eager(r) ==
    CASE r.input.kind = "list" ->
           IF r.input.elems = <<>>
           THEN [r EXCEPT !.pc = "returned", !.ret = "list"]
           ELSE TakeUp(r, 1)
      [] r.input.kind = "dataset" ->
           IF r.input.elems = <<>>
           THEN [r EXCEPT !.pc = "suspended", !.ret = "generator"]
           ELSE [TakeUp(r, 1) EXCEPT !.ret = "generator"]
      [] OTHER -> TakeUp(r, 1)

dispatch(r) ==
    CASE r.input.kind = "list" ->
           IF r.input.elems = <<>>
           THEN [r EXCEPT !.pc = "returned", !.ret = "list"]
           ELSE TakeUp(r, 1)
      [] r.input.kind = "dataset" ->
           \* the generator is handed back; its body has not started
           [r EXCEPT !.pc = "suspended", !.ret = "generator"]
      [] OTHER -> TakeUp(r, 1)

Dispatch(t) ==
    /\ th[t].pc = "dispatch"
    /\ th' = [th EXCEPT ![t] = dispatch(@)]
    /\ UNCHANGED <<self, placed, ctor, distVars>>

(***************************************************************************)
(* _process_single, lines 210-227.                                         *)
(***************************************************************************)
\* a stage of the element in hand ended with e ("" when it passed)
StageDone(r, stage, e, out) ==
    [r EXCEPT !.itemlogs = Logged(r, stage, e),
              !.out = out,
              !.err = e,
              !.pc = AfterStage(stage, e, Collates)]

\* line 214
CheckInput(t) ==
    /\ th[t].pc = "check_input"
    /\ th' = [th EXCEPT ![t] =
                StageDone(@, "check_input", _check_input(self.group_key, @.cur), @.out)]
    /\ UNCHANGED <<self, placed, ctor, distVars>>

\* line 215 and Pipeline.preprocess, lines 281-287
Preprocess(t) ==
    /\ th[t].pc = "preprocess"
    /\ \E raises \in BOOLEAN :
         LET e == IF self.preprocessor = "None" THEN "AssertionError:preprocess"
                  ELSE IF self.preprocessor = "list" THEN "AssertionError:preprocessors"
                  ELSE IF raises THEN "PreprocessorError" ELSE ""
         IN  th' = [th EXCEPT ![t] =
                      StageDone(@, "preprocess", e,
                                [NoOut EXCEPT !.src = th[t].cur, !.by = <<"preprocess">>])]
    /\ UNCHANGED <<self, placed, ctor, distVars>>

\* lines 219-220: collate_fn, which raises on a leaf of an unsupported type
Collate(t) ==
    /\ th[t].pc = "collate"
    /\ \E raises \in BOOLEAN :
         th' = [th EXCEPT ![t] =
                  IF raises
                  THEN [@ EXCEPT !.pc = "raised", !.err = "ValueError:unsupported data type"]
                  ELSE [@ EXCEPT !.pc = "forward", !.out.by = Append(@, "collate")]]
    /\ UNCHANGED <<self, placed, ctor, distVars>>

\* Pipeline.forward, lines 289-295
default_forward(m, multi, raises) ==
    IF m.kind = "None" THEN "AssertionError:forward"
    ELSE IF multi THEN "AssertionError:multiple models"
    ELSE IF m.kind # "Model" THEN "TypeError:not callable"
    ELSE IF raises THEN "ModelError" ELSE ""

\* line 295 is reached when both assertions pass; self.model(...) runs the
\* model when self.model is a Model (a str is not callable)
invokes_model(m, multi) == m.kind # "None" /\ ~multi /\ m.kind = "Model"

\* lines 221/223
Forward(t) ==
    /\ th[t].pc = "forward"
    /\ self.cls = "Pipeline"
    /\ \E raises \in BOOLEAN :
         th' = [th EXCEPT ![t] =
                  [StageDone(@, "forward",
                             default_forward(self.model, self.has_multiple_models, raises),
                             [@.out EXCEPT !.by = Append(@, "forward")])
                     EXCEPT !.invoked =
                        IF invokes_model(self.model, self.has_multiple_models)
                        THEN @ + 1 ELSE @]]
    /\ UNCHANGED <<self, placed, ctor, distVars>>

\* line 225: postprocess is the subclass's; it returns a dict with some keys
Postprocess(t) ==
    /\ th[t].pc = "postprocess"
    /\ \E raises \in BOOLEAN, ks \in SUBSET OutputKeys :
         th' = [th EXCEPT ![t] =
                  StageDone(@, "postprocess",
                            IF raises THEN "PostprocessError" ELSE "",
                            [@.out EXCEPT !.by = Append(@, "postprocess"),
                                          !.keys = IF raises THEN {} ELSE ks])]
    /\ UNCHANGED <<self, placed, ctor, distVars>>

\* line 226
CheckOutput(t) ==
    /\ th[t].pc = "check_output"
    /\ th' = [th EXCEPT ![t] =
                [StageDone(@, "check_output",
                           _check_output(self.group_key, @.out.keys), @.out)
                   EXCEPT !.missing = missing_keys(self.group_key, th[t].out.keys)]]
    /\ UNCHANGED <<self, placed, ctor, distVars>>

(***************************************************************************)
(* line 227 and the caller of _process_single: the result of the element   *)
(* goes to the caller (scalar), to the output list (list, line 181) or is  *)
(* yielded (dataset, line 205).                                            *)
(***************************************************************************)
\* a loop that puts each result in front of the earlier ones
collect_front(output, out) == <<out>> \o output

\* line 181: output.append(...)
collect(output, out) == Append(output, out)

ItemDone(t) ==
    /\ th[t].pc = "item_done"
    /\ th' = [th EXCEPT ![t] =
                CASE @.input.kind = "list" ->
                       IF @.idx < Len(@.input.elems)
                       THEN [TakeUp(@, @.idx + 1) EXCEPT
                               !.output = collect(@, th[t].out)]
                       ELSE [@ EXCEPT !.output = collect(@, th[t].out),
                                      !.pc = "returned", !.ret = "list"]
                  [] @.input.kind = "dataset" ->
                       [@ EXCEPT !.output = Append(@, th[t].out), !.pc = "suspended"]
                  [] OTHER ->
                       [@ EXCEPT !.output = <<th[t].out>>, !.pc = "returned",
                                 !.ret = "dict"]]
    /\ UNCHANGED <<self, placed, ctor, distVars>>

(***************************************************************************)
(* _process_iterator, lines 203-205, driven by the caller of the           *)
(* generator: each next() resumes the loop for one element.                *)
(***************************************************************************)
Pull(t) ==
    /\ th[t].pc = "suspended"
    /\ th' = [th EXCEPT ![t] =
                IF @.idx < Len(@.input.elems)
                THEN [TakeUp(@, @.idx + 1) EXCEPT !.pulls = @ + 1]
                ELSE [@ EXCEPT !.pulls = @ + 1, !.pc = "exhausted"]]
    /\ UNCHANGED <<self, placed, ctor, distVars>>

\* the caller drops the generator
StopPulling(t) ==
    /\ th[t].pc = "suspended"
    /\ th' = [th EXCEPT ![t] = [@ EXCEPT !.pc = "abandoned"]]
    /\ UNCHANGED <<self, placed, ctor, distVars>>

(***************************************************************************)
(* Spec: one caller, every shape of input.                                 *)
(***************************************************************************)
FlowElems == {Atom("str", 1), Atom("str", 2), Atom("int", 3)}

FlowInputs ==
    [kind : {"scalar"}, elems : SeqsOf(FlowElems, 1, 1)]
      \cup [kind : {"list", "dataset"}, elems : SeqsOf(FlowElems, 0, MaxLen)]

TorchModel == [kind |-> "Model", fw |-> "torch"]
TfModel    == [kind |-> "Model", fw |-> "tf"]

One(h)   == [isList |-> FALSE, one |-> h, many |-> <<>>]
Many(hs) == [isList |-> TRUE, one |-> NoneH, many |-> hs]

\* the pipelines invoked: a single model of either framework, no model, and
\* lists of one and of two models
FlowCtorArgs ==
    {One(TorchModel), One(TfModel), One(NoneH),
     Many(<<TorchModel>>), Many(<<TorchModel, TorchModel>>)}

ConstructedWith(arg, preprocessor, auto_collate, task) ==
    [PipelineInit(arg, preprocessor, auto_collate).obj EXCEPT
        !.group_key = task, !.attrs = @ \cup {"group_key"}]

InitFlow(args, preprocessors, tasks) ==
    /\ \E arg \in args, p \in preprocessors, ac \in BOOLEAN, task \in tasks :
         /\ PipelineInit(arg, p, ac).err = ""
         /\ self = ConstructedWith(arg, p, ac, task)
         /\ ctor = [arg |-> arg, pc |-> "constructed", err |-> "", resolver_calls |->
                      PipelineInit(arg, p, ac).resolver_calls]
    /\ placed = [i \in 1..Len(self.models) |-> 0]
    /\ th = NoThreads
    /\ mp = "None"
    /\ dist = NoDist
    /\ pool = NoPool

Init == InitFlow(FlowCtorArgs, {"single", "None", "list"},
                 {"image-classification", "unregistered"})

Main == 1

Next ==
    \/ Call(Main, FlowInputs)
    \/ CallPrepare(Main)
    \/ Enter(Main)
    \/ Acquire(Main)
    \/ AcquireTimeout(Main)
    \/ Tick
    \/ CheckFlag(Main)
    \/ PlaceOne(Main)
    \/ SetFlag(Main)
    \/ Release(Main)
    \/ Sanitize(Main)
    \/ Dispatch(Main)
    \/ CheckInput(Main)
    \/ Preprocess(Main)
    \/ Collate(Main)
    \/ Forward(Main)
    \/ Postprocess(Main)
    \/ CheckOutput(Main)
    \/ ItemDone(Main)
    \/ Pull(Main)
    \/ StopPulling(Main)

Spec == Init /\ [][Next]_vars

(***************************************************************************)
(* Properties of one invocation (Spec).                                    *)
(***************************************************************************)
AllOk(l) == \A i \in 1..Len(l) : l[i].ok

\* the transformations the single-item path applies, in order
SinglePath ==
    IF Collates THEN <<"preprocess", "collate", "forward", "postprocess">>
    ELSE <<"preprocess", "forward", "postprocess">>

\* x is what the single-item path makes of the element e
IsResultOf(x, e) == x.src = e /\ x.by = SinglePath

(* C1: in every single-item run the stages run in the order input          *)
(* validation, preprocess, forward, postprocess, output validation, each   *)
(* at most once; a stage runs only if every earlier stage of the item      *)
(* passed; a result reaches the caller only after output validation        *)
(* passed.                                                                 *)
C1_StageOrder ==
    \A t \in Threads :
      /\ \A k \in 1..Len(th[t].itemlogs) :
           LET l == th[t].itemlogs[k] IN
           /\ Len(l) <= Len(Stages)
           /\ \A i \in 1..Len(l) : l[i].stage = Stages[i]
           /\ \A i \in 1..Len(l) : i < Len(l) => l[i].ok
      /\ Len(th[t].output) <= Len(th[t].itemlogs)
      /\ \A k \in 1..Len(th[t].output) :
           /\ Len(th[t].itemlogs[k]) = Len(Stages)
           /\ AllOk(th[t].itemlogs[k])
           /\ th[t].output[k].by = SinglePath

C1_Witness ==
    /\ th[Main].pc = "returned"
    /\ th[Main].ret = "dict"
    /\ Len(th[Main].output) = 1
    /\ Len(th[Main].itemlogs[1]) = Len(Stages)

(* C2: on a dataset of N elements the generator yields the results in      *)
(* source order, one per pull: no element is taken up before the pull that *)
(* asks for it, at most one element is in flight, a generator run to its   *)
(* end has yielded N results, and one the caller dropped after k results   *)
(* has taken up no element beyond the k-th.                                *)
C2_LazyStream ==
    \A t \in Threads :
      th[t].input.kind = "dataset" =>
        LET n == Len(th[t].input.elems) IN
        /\ Len(th[t].itemlogs) = th[t].idx
        /\ th[t].idx <= th[t].pulls
        /\ th[t].idx <= n
        /\ th[t].idx - Len(th[t].output) \in {0, 1}
        /\ \A k \in 1..Len(th[t].output) :
             IsResultOf(th[t].output[k], th[t].input.elems[k])
        /\ th[t].pc = "suspended" => Len(th[t].output) = th[t].pulls
        /\ th[t].pc = "exhausted" => Len(th[t].output) = n /\ th[t].pulls = n + 1
        /\ th[t].pc = "abandoned" => th[t].idx = Len(th[t].output)

C2_Witness ==
    /\ th[Main].input.kind = "dataset"
    /\ th[Main].pc = "exhausted"
    /\ Len(th[Main].output) = MaxLen
    /\ th[Main].input.elems[1] # th[Main].input.elems[2]

(* C3: a pipeline with one model and one preprocessor returns one result   *)
(* for a scalar input and, for a list of N inputs, a list of N results,    *)
(* the i-th being the single-item path's result for the i-th input; the    *)
(* elements are processed one after another in list order; the             *)
(* sanitization hook runs once per invocation, before any element.         *)
SingleModelAndPreprocessor ==
    /\ ~ctor.arg.isList
    /\ Truthy(ctor.arg.one)
    /\ self.preprocessor = "single"

C3_ScalarAndList ==
    \A t \in Threads :
      SingleModelAndPreprocessor /\ th[t].via = "call" =>
        /\ th[t].sanitized <= 1
        /\ th[t].itemlogs # <<>> => th[t].sanitized = 1
        /\ th[t].input.kind = "list" =>
             /\ Len(th[t].itemlogs) = th[t].idx
             /\ th[t].idx - Len(th[t].output) \in {0, 1}
             /\ \A k \in 1..Len(th[t].output) :
                  IsResultOf(th[t].output[k], th[t].input.elems[k])
        /\ th[t].pc = "returned" =>
             /\ th[t].sanitized = 1
             /\ th[t].input.kind = "scalar" =>
                  /\ th[t].ret = "dict"
                  /\ Len(th[t].output) = 1
                  /\ IsResultOf(th[t].output[1], th[t].input.elems[1])
             /\ th[t].input.kind = "list" =>
                  /\ th[t].ret = "list"
                  /\ Len(th[t].output) = Len(th[t].input.elems)

C3_Witness ==
    /\ SingleModelAndPreprocessor
    /\ th[Main].pc = "returned"
    /\ th[Main].input.kind = "list"
    /\ Len(th[Main].output) = MaxLen
    /\ th[Main].output[1].src # th[Main].output[2].src

(* C7: prepare_model is idempotent.  A call that starts with the flag set  *)
(* (as every call after one that returned does) moves no model, leaves the *)
(* flag set, returns, and leaves the lock free; a call that returns leaves *)
(* the flag set; the flag never goes from set to unset.                    *)
PreparePcs == {"acquire", "check_flag", "placing", "set_flag", "release"}

C7_PrepareIdempotent ==
    [][/\ self._model_prepare => self'._model_prepare
       /\ \A t \in Threads :
            /\ th[t].via = "direct" /\ th[t].pc = "release" /\ th'[t].pc = "returned"
                 => self'._model_prepare
            /\ th[t].via = "direct" /\ th[t].entered_prepared
                 /\ th[t].pc \in PreparePcs /\ th'[t] # th[t]
                 => /\ placed' = placed
                    /\ self'._model_prepare
                    /\ th'[t].pc \in {"acquire", "check_flag", "release", "returned"}
                    /\ th'[t].pc = "returned" => self'.lock = 0]_vars

C7_Witness ==
    /\ th[Main].via = "direct"
    /\ th[Main].entered_prepared
    /\ th[Main].pc = "returned"
    /\ th[Main].calls = 2
    /\ \E i \in 1..Len(placed) : placed[i] = 1

(***************************************************************************)
(* SpecPrepare: several threads invoke one pipeline, or call prepare_model *)
(* themselves, on a scalar input.                                          *)
(***************************************************************************)
PrepareInputs == [kind : {"scalar"}, elems : {<<Atom("str", 1)>>}]

PrepareCtorArgs ==
    {One(TorchModel), One(TfModel), Many(<<TorchModel>>),
     Many(<<TorchModel, TorchModel>>)}

InitPrepare == InitFlow(PrepareCtorArgs, {"single"}, {"unregistered"})

NextPrepare ==
    \/ \E t \in Threads :
         \/ Call(t, PrepareInputs)
         \/ CallPrepare(t)
         \/ Enter(t)
         \/ Acquire(t)
         \/ AcquireTimeout(t)
         \/ CheckFlag(t)
         \/ PlaceOne(t)
         \/ SetFlag(t)
         \/ Release(t)
         \/ Sanitize(t)
         \/ Dispatch(t)
         \/ CheckInput(t)
         \/ Preprocess(t)
         \/ Collate(t)
         \/ Forward(t)
         \/ Postprocess(t)
         \/ CheckOutput(t)
         \/ ItemDone(t)
    \/ Tick

SpecPrepare == InitPrepare /\ [][NextPrepare]_vars

(* C8: a thread whose acquire timed out fails the call: it performs no     *)
(* device placement, does not set the prepared flag and does not release   *)
(* the lock.                                                               *)
C8_TimeoutFailsCall ==
    \A t \in Threads :
      th[t].waited >= LockTimeout /\ ~th[t].acquired =>
        th[t].pc \in {"acquire", "raised"}

(***************************************************************************)
(* SpecCtor: the constructor applied to every bounded argument.            *)
(***************************************************************************)
Construct ==
    /\ ctor.pc = "new"
    /\ LET r == PipelineInit(ctor.arg, "single", TRUE) IN
       /\ self' = r.obj
       /\ ctor' = [ctor EXCEPT !.pc = IF r.err = "" THEN "constructed" ELSE "raised",
                               !.err = r.err,
                               !.resolver_calls = r.resolver_calls]
    /\ UNCHANGED <<placed, th, distVars>>

InitCtor ==
    /\ self = BlankObject
    /\ placed = <<>>
    /\ ctor \in [arg : CtorArgs, pc : {"new"}, err : {""}, resolver_calls : {0}]
    /\ th = NoThreads
    /\ mp = "None"
    /\ dist = NoDist
    /\ pool = NoPool

NextCtor == Construct

SpecCtor == InitCtor /\ [][NextCtor]_vars

(***************************************************************************)
(* DistributedPipeline.                                                    *)
(*                                                                         *)
(* The pool is multiprocessing.Pool(world_size): world_size worker         *)
(* processes that take tasks from one queue, first come first served.      *)
(* map(f, xs) puts one task per element of xs on the queue (the chunk size *)
(* is 1 for world_size elements on world_size workers) and blocks until    *)
(* every task has ended; it then returns the results in the order of xs,   *)
(* or raises the exception of a task that raised.  A worker that ran a     *)
(* task that raised goes on to the next task.                              *)
(*                                                                         *)
(* _instantiate_one and _forward_one are the subclass's: instantiation     *)
(* keeps the rank's model shard in a class field of the worker process,    *)
(* forward uses the shard the worker process holds.  A forward result is   *)
(* modelled by the rank of the shard that produced it.                     *)
(***************************************************************************)
Ranks(W) == 0..(W - 1)

\* line 354: ranks = list(range(self.world_size))
ranks(W) == [k \in 1..W |-> k - 1]

Pending == [st |-> "pending", val |-> NoShard]

\* map(f, xs): one task per element, in order
MapTasks(kind, xs) == [k \in 1..Len(xs) |-> [kind |-> kind, i |-> k - 1, arg |-> xs[k]]]

\* a map that hands back what it has as soon as one task has ended
map_ready_any(p) == \E i \in DOMAIN p.results : p.results[i].st # "pending"

\* map blocks until every task of the job has ended
MapReady(p) == \A i \in DOMAIN p.results : p.results[i].st # "pending"

\* a map that drops the tasks that raised
map_raises_never(p) == FALSE

\* map raises when a task raised
MapRaises(p) == \E i \in DOMAIN p.results : p.results[i].st = "err"

\* line 401: return res[0]
ForwardResult(res) == res[0].val

\* lines 335-350
DInitAttrs ==
    /\ dist.pc = "new"
    /\ self' = [BlankObject EXCEPT
                  !.cls = "DistributedPipeline",
                  !.attrs = {"preprocessor", "_model_prepare", "_model_prepare_lock",
                             "_auto_collate", "model_dir", "cfg", "world_size",
                             "model_pool", "device_name", "device",
                             "has_multiple_models", "framework", "group_key"}
                            \cup (IF dist.has_model_field THEN {"model"} ELSE {}),
                  !.preprocessor = "single",
                  !.has_multiple_models = FALSE,
                  !.framework = dist.framework,
                  !._auto_collate = dist.auto_collate]
    /\ dist' = [dist EXCEPT !.pc = "start_method"]
    /\ UNCHANGED <<placed, ctor, th, mp, pool>>

\* lines 351-352
DSetStartMethod ==
    /\ dist.pc = "start_method"
    /\ IF mp = "None"
       THEN /\ mp' = "spawn"
            /\ dist' = [dist EXCEPT !.pc = "pool", !.set_calls = @ + 1]
       ELSE /\ mp' = mp
            /\ dist' = [dist EXCEPT !.pc = "pool"]
    /\ UNCHANGED <<self, placed, ctor, th, pool>>

\* line 355: Pool(self.world_size)
DCreatePool ==
    /\ dist.pc = "pool"
    /\ LET W == dist.world_size IN
       pool' = [workers |-> 1..W,
                started_with |-> mp,
                wstate |-> [w \in 1..W |-> IdleWorker],
                shard |-> [w \in 1..W |-> NoShard],
                queue |-> <<>>,
                job |-> "none",
                results |-> <<>>,
                taken |-> <<>>,
                inst_count |-> [r \in Ranks(W) |-> 0],
                inst_args |-> [r \in Ranks(W) |-> NoKwargs],
                inst_state |-> [r \in Ranks(W) |-> "no"],
                fwd_started |-> FALSE]
    /\ dist' = [dist EXCEPT !.pc = "port"]
    /\ UNCHANGED <<self, placed, ctor, th, mp>>

\* lines 356-361: the requested port when it is free, else one that is
DPickPort ==
    /\ dist.pc = "port"
    /\ \E free \in BOOLEAN :
         dist' = [dist EXCEPT
                    !.pc = "map",
                    !.kwargs = [model_dir |-> "model_dir", master_ip |-> "127.0.0.1",
                                master_port |-> IF free THEN "29500" ELSE "free port"]]
    /\ UNCHANGED <<self, placed, ctor, th, mp, pool>>

\* a job is put on the pool's queue
Submitted(p, kind, xs) ==
    [p EXCEPT !.queue = MapTasks(kind, xs),
              !.job = kind,
              !.results = [i \in Ranks(Len(xs)) |-> Pending],
              !.taken = [i \in Ranks(Len(xs)) |-> 0]]

\* lines 362-369: model_pool.map(partial(_instantiate_one, ...), ranks)
DMapInstantiate ==
    /\ dist.pc = "map"
    /\ pool' = Submitted(pool, "inst", ranks(dist.world_size))
    /\ dist' = [dist EXCEPT !.pc = "wait"]
    /\ UNCHANGED <<self, placed, ctor, th, mp>>

\* idle workers that hold the same shard differ in nothing but their number:
\* the one with the least number stands for them
StandsForItsLike(w) ==
    \A v \in pool.workers :
        (v < w /\ pool.wstate[v].kind = "idle") => pool.shard[v] # pool.shard[w]

\* an idle worker takes the task at the head of the queue
WorkerTake(w) ==
    /\ w \in pool.workers
    /\ pool.wstate[w].kind = "idle"
    /\ StandsForItsLike(w)
    /\ pool.queue # <<>>
    /\ LET task == Head(pool.queue) IN
       pool' = [pool EXCEPT
                  !.queue = Tail(@),
                  !.wstate[w] = task,
                  !.taken[task.i] = @ + 1,
                  !.inst_count = IF task.kind = "inst"
                                 THEN [@ EXCEPT ![task.arg] = @ + 1] ELSE @,
                  !.inst_args = IF task.kind = "inst"
                                THEN [@ EXCEPT ![task.arg] = dist.kwargs] ELSE @,
                  !.fwd_started = @ \/ task.kind = "fwd"]
    /\ UNCHANGED <<self, placed, ctor, th, mp, dist>>

\* the hook returns or raises; the worker posts the outcome and is idle again
WorkerFinish(w) ==
    /\ w \in pool.workers
    /\ pool.wstate[w].kind # "idle"
    /\ LET task == pool.wstate[w] IN
       \E ok \in BOOLEAN :
         pool' = [pool EXCEPT
                    !.wstate[w] = IdleWorker,
                    !.shard[w] = IF ok /\ task.kind = "inst" THEN task.arg ELSE @,
                    !.inst_state = IF task.kind = "inst"
                                   THEN [@ EXCEPT ![task.arg] = IF ok THEN "ok" ELSE "err"]
                                   ELSE @,
                    !.results[task.i] =
                       IF ~ok THEN [st |-> "err", val |-> NoShard]
                       ELSE IF task.kind = "inst" THEN [st |-> "ok", val |-> NoShard]
                       ELSE [st |-> "ok", val |-> pool.shard[w]]]
    /\ UNCHANGED <<self, placed, ctor, th, mp, dist>>

\* the job is over: the list map returned is the caller's
Collected(p) == [p EXCEPT !.job = "none", !.results = <<>>, !.taken = <<>>]

\* map returns to __init__, or raises into it
DMapReturn ==
    /\ dist.pc = "wait"
    /\ pool.job = "inst"
    /\ MapReady(pool)
    /\ dist' = [dist EXCEPT !.pc = IF MapRaises(pool) THEN "raised" ELSE "constructed"]
    /\ pool' = Collected(pool)
    /\ UNCHANGED <<self, placed, ctor, th, mp>>

\* DistributedPipeline.forward, lines 395-400:
\* model_pool.map(_forward_one, [inputs] * self.world_size)
DistForward(t) ==
    /\ th[t].pc = "forward"
    /\ self.cls = "DistributedPipeline"
    /\ pool' = Submitted(pool, "fwd", [k \in 1..dist.world_size |-> 0])
    /\ th' = [th EXCEPT ![t] = [@ EXCEPT !.pc = "fwd_wait"]]
    /\ UNCHANGED <<self, placed, ctor, mp, dist>>

\* line 401: return res[0], or the exception map raised
DistForwardReturn(t) ==
    /\ th[t].pc = "fwd_wait"
    /\ pool.job = "fwd"
    /\ MapReady(pool)
    /\ th' = [th EXCEPT ![t] =
                IF MapRaises(pool)
                THEN StageDone(@, "forward", "WorkerError", @.out)
                ELSE StageDone(@, "forward", "",
                               [@.out EXCEPT !.by = Append(@, "forward"),
                                             !.shard = ForwardResult(pool.results)])]
    /\ pool' = Collected(pool)
    /\ UNCHANGED <<self, placed, ctor, mp, dist>>

\* the pipeline is dropped (__del__, lines 371-373, terminates its pool) and
\* another one is constructed in the same process, any number of times
NewPipeline ==
    /\ dist.pc \in {"constructed", "raised"}
    /\ \A t \in Threads : th[t].pc \in {"idle"} \cup Terminal
    /\ dist' = [dist EXCEPT !.pc = "new", !.kwargs = NoKwargs]
    /\ self' = [BlankObject EXCEPT !.cls = "DistributedPipeline"]
    /\ pool' = NoPool
    /\ th' = NoThreads
    /\ UNCHANGED <<placed, ctor, mp>>

(***************************************************************************)
(* SpecDist: a distributed pipeline is constructed and invoked on a scalar *)
(* input by one caller.                                                    *)
(***************************************************************************)
DistInputs == [kind : {"scalar"}, elems : {<<Atom("str", 1)>>}]

InitDist ==
    /\ self = [BlankObject EXCEPT !.cls = "DistributedPipeline"]
    /\ placed = <<>>
    /\ ctor = [arg |-> One(NoneH), pc |-> "none", err |-> "", resolver_calls |-> 0]
    /\ th = NoThreads
    /\ mp \in {"None", "fork", "spawn"}
    /\ dist \in [pc : {"new"}, world_size : 1..MaxWorld, framework : FrameworkTags,
                 auto_collate : BOOLEAN, has_model_field : BOOLEAN,
                 kwargs : {NoKwargs}, set_calls : {0}]
    /\ pool = NoPool

\* __call__ on the constructed pipeline, any number of times: a call keeps
\* nothing of the calls before it
DistCall(t) ==
    /\ dist.pc = "constructed"
    /\ th[t].pc \in {"idle"} \cup Terminal
    /\ \E inp \in DistInputs :
         th' = [th EXCEPT ![t] = [IdleThread EXCEPT !.pc = "enter", !.via = "call",
                                    !.input = inp]]
    /\ UNCHANGED <<self, placed, ctor, distVars>>

NextDist ==
    \/ DInitAttrs
    \/ DSetStartMethod
    \/ DCreatePool
    \/ DPickPort
    \/ DMapInstantiate
    \/ \E w \in 1..MaxWorld : WorkerTake(w) \/ WorkerFinish(w)
    \/ DMapReturn
    \/ NewPipeline
    \/ DistCall(Main)
    \/ Enter(Main)
    \/ Sanitize(Main)
    \/ Dispatch(Main)
    \/ CheckInput(Main)
    \/ Preprocess(Main)
    \/ Collate(Main)
    \/ DistForward(Main)
    \/ DistForwardReturn(Main)
    \/ Postprocess(Main)
    \/ CheckOutput(Main)
    \/ ItemDone(Main)

SpecDist == InitDist /\ [][NextDist]_vars

(***************************************************************************)
(* Properties of the distributed pipeline (SpecDist).                      *)
(***************************************************************************)
PoolCreated == pool.workers # {}

AllInstantiated ==
    \A r \in Ranks(dist.world_size) :
        /\ pool.inst_count[r] = 1
        /\ pool.inst_state[r] = "ok"
        /\ pool.inst_args[r] = dist.kwargs

\* C4: the pool of a distributed pipeline of world size W has exactly W
\* worker processes; the instantiation hook is invoked at most once per rank
\* 0..W-1, each time with the one shared keyword configuration (model
\* directory, master address, master port); when the constructor has
\* returned, and whenever a forward hook has started, every rank has been
\* instantiated exactly once and its instantiation has completed.
C4_SynchronousFanOut ==
    PoolCreated =>
        /\ Cardinality(pool.workers) = dist.world_size
        /\ \A r \in Ranks(dist.world_size) :
              /\ pool.inst_count[r] <= 1
              /\ pool.inst_count[r] = 1 =>
                    /\ pool.inst_args[r] = dist.kwargs
                    /\ dist.kwargs.model_dir # ""
                    /\ dist.kwargs.master_ip # ""
                    /\ dist.kwargs.master_port # ""
        /\ dist.pc = "constructed" => AllInstantiated
        /\ pool.fwd_started => AllInstantiated

C4_Witness ==
    /\ dist.pc = "constructed"
    /\ dist.world_size = MaxWorld
    /\ pool.fwd_started
    /\ AllInstantiated

ForwardDone(r) == \E k \in DOMAIN r.out.by : r.out.by[k] = "forward"

\* C5: a distributed forward that has returned hands back the result
\* produced by the worker that holds the shard of rank 0.
C5_ForwardIsRankZero ==
    \A t \in Threads : ForwardDone(th[t]) => th[t].out.shard = 0

SomeTaskRaised == \E i \in DOMAIN pool.results : pool.results[i].st = "err"

\* C6: when a task of the instantiation broadcast has raised, the
\* constructor raises and the pipeline is not constructed; when a task of a
\* forward broadcast has raised, forward raises the worker's error and the
\* call raises it with no result for the caller; no task is taken from the
\* queue a second time and the pool keeps the worker processes it was made
\* with.
C6_WorkerFailureFailsCall ==
    [][ /\ (dist.pc = "wait" /\ dist'.pc # "wait" /\ SomeTaskRaised)
            => dist'.pc = "raised"
        /\ (\E r \in DOMAIN pool'.inst_state : pool'.inst_state[r] = "err")
            => dist'.pc # "constructed"
        /\ \A t \in Threads :
             (th[t].pc = "fwd_wait" /\ th'[t].pc # "fwd_wait" /\ SomeTaskRaised)
                => /\ th'[t].pc = "raised"
                   /\ th'[t].err = "WorkerError"
                   /\ th'[t].output = <<>>
                   /\ th'[t].ret = IdleThread.ret
                   /\ ~ForwardDone(th'[t])
        /\ \A i \in DOMAIN pool'.taken : pool'.taken[i] <= 1
        /\ (PoolCreated /\ pool'.workers # {}) => pool'.workers = pool.workers
      ]_vars

C6_Witness ==
    /\ dist.pc = "constructed"
    /\ dist.world_size = MaxWorld
    /\ th[Main].pc = "raised"
    /\ th[Main].err = "WorkerError"
    /\ th[Main].output = <<>>

\* C9: an invocation of a constructed distributed pipeline that has raised
\* has reached preprocess.
C9_ReachesPreprocess ==
    \A t \in Threads :
        (dist.pc = "constructed" /\ th[t].pc = "raised" /\ th[t].via = "call")
            => \E i \in DOMAIN th[t].itemlogs :
                  \E k \in DOMAIN th[t].itemlogs[i] :
                      th[t].itemlogs[i][k].stage = "preprocess"

(***************************************************************************)
(* Properties of construction (SpecCtor).                                  *)
(***************************************************************************)
\* the models of the argument list: its truthy handles
RECURSIVE BoundModels(_)
BoundModels(hs) ==
    IF hs = <<>> THEN <<>>
    ELSE IF Truthy(Head(hs)) THEN <<Head(hs)>> \o BoundModels(Tail(hs))
    ELSE BoundModels(Tail(hs))

TagsEqual(hs) == \A i \in 1..Len(hs) : hs[i].fw = hs[1].fw

(* C10: a pipeline constructed with two or more models fails with the      *)
(* configuration-conflict error exactly when the framework tags of the     *)
(* bound models are not all equal; when they are equal construction        *)
(* succeeds and the pipeline's framework is the common tag.  The resolver  *)
(* is called at most once, and only if a model is bound.                   *)
C10_ConflictIffTagsDiffer ==
    LET bound == BoundModels(ctor.arg.many) IN
    ctor.pc # "new" /\ ctor.arg.isList /\ Len(bound) >= 2
      /\ (\A i \in 1..Len(bound) : bound[i].kind \in {"str", "hub", "Model"}) =>
        /\ ctor.err = "ValueError:different frameworks" <=> ~TagsEqual(bound)
        /\ TagsEqual(bound) =>
             ctor.pc = "constructed" /\ self.framework = bound[1].fw
        /\ ctor.resolver_calls <= 1
        /\ ctor.resolver_calls = 1 => bound # <<>>

(***************************************************************************)
(* Properties of the default forward (Spec).                               *)
(***************************************************************************)
\* the forward stages a call has run so far
ForwardRuns(r) ==
    Cardinality({ik \in UNION {{<<i, k>> : k \in DOMAIN r.itemlogs[i]} :
                                 i \in DOMAIN r.itemlogs} :
                    r.itemlogs[ik[1]][ik[2]].stage = "forward"})

\* C11: the default forward invokes the bound model exactly when one model
\* is bound to the pipeline, however it was constructed: with one model
\* bound every forward stage run has invoked it, with none or several bound
\* no model is invoked and the forward stage fails.
C11_ForwardIffOneBound ==
    \A t \in Threads :
        LET n == Len(BoundModels(self.models)) IN
        self.cls = "Pipeline" =>
            IF n = 1
            THEN th[t].invoked = ForwardRuns(th[t])
            ELSE /\ th[t].invoked = 0
                 /\ ForwardRuns(th[t]) > 0 =>
                        th[t].pc = "raised"
                          /\ th[t].err \in {"AssertionError:forward",
                                            "AssertionError:multiple models"}

(***************************************************************************)
(* SpecCheck: one caller invokes a pipeline of any task, registered or     *)
(* not, on a scalar input of any shape.                                    *)
(***************************************************************************)
CheckAtoms == {Atom("str", 1), Atom("int", 2), Atom("ndarray", 3)}

CheckElems ==
    CheckAtoms
      \cup {TupleV(items) : items \in SeqsOf(CheckAtoms, 1, MaxLen)}
      \cup {DictV(<<"image">>, <<a>>) : a \in CheckAtoms}
      \cup {DictV(<<"text">>, <<a>>) : a \in CheckAtoms}
      \cup {DictV(<<"image", "text">>, <<a, b>>) : a \in CheckAtoms, b \in {Atom("str", 1)}}

CheckInputs == [kind : {"scalar"}, elems : {<<e>> : e \in CheckElems}]

InitCheck == InitFlow({One(TorchModel)}, {"single"}, TaskNames \cup {"unregistered"})

NextCheck ==
    \/ Call(Main, CheckInputs)
    \/ Enter(Main)
    \/ Acquire(Main)
    \/ AcquireTimeout(Main)
    \/ Tick
    \/ CheckFlag(Main)
    \/ PlaceOne(Main)
    \/ SetFlag(Main)
    \/ Release(Main)
    \/ Sanitize(Main)
    \/ Dispatch(Main)
    \/ CheckInput(Main)
    \/ Preprocess(Main)
    \/ Collate(Main)
    \/ Forward(Main)
    \/ Postprocess(Main)
    \/ CheckOutput(Main)
    \/ ItemDone(Main)

SpecCheck == InitCheck /\ [][NextCheck]_vars

(***************************************************************************)
(* Properties of input validation (SpecCheck).                             *)
(***************************************************************************)
\* the input conforms to a descriptor that is not a list: it has the single
\* type; or it is a tuple that matches the tuple descriptor member by member
\* (position by position, as far as both go);
\* or it is a mapping whose declared keys, where present, have the declared
\* types
ConformsToShape(desc, input) ==
    CASE desc.d = "str"   -> input.ty = desc.name
      [] desc.d = "tuple" ->
             /\ input.ty = "tuple"
             /\ \A i \in 1..Min(Len(desc.items), Len(input.items)) :
                   input.items[i].ty = desc.items[i]
      [] desc.d = "dict"  ->
             /\ input.ty = "dict"
             /\ \A i \in 1..Len(desc.keys) : \A j \in 1..Len(input.keys) :
                   input.keys[j] = desc.keys[i] => input.items[j].ty = desc.items[i]
      [] OTHER -> FALSE

Conforms(desc, input) ==
    IF desc.d = "list"
    THEN \E i \in 1..Len(desc.alts) : ConformsToShape(desc.alts[i], input)
    ELSE ConformsToShape(desc, input)

\* the call has run input validation on its input
InputChecked(r) == r.itemlogs # <<>> /\ r.itemlogs[1] # <<>>

\* C13: for a task whose descriptor is a list of alternatives, an input that
\* conforms to none of them is rejected by input validation with the error
\* that enumerates the alternatives.
C13_RejectsWithAlternatives ==
    \A t \in Threads :
        (/\ self.group_key \in TaskNames
         /\ TASK_INPUTS(self.group_key).d = "list"
         /\ InputChecked(th[t])
         /\ ~Conforms(TASK_INPUTS(self.group_key), th[t].input.elems[1]))
        => /\ ~th[t].itemlogs[1][1].ok
           /\ th[t].pc = "raised"
           /\ th[t].err = "ValueError:one of following"

\* C14: for a registered task an input that conforms to the declared shape
\* passes input validation.
C14_ConformingPasses ==
    \A t \in Threads :
        (/\ self.group_key \in TaskNames
         /\ InputChecked(th[t])
         /\ Conforms(TASK_INPUTS(self.group_key), th[t].input.elems[1]))
        => th[t].itemlogs[1][1].ok

(***************************************************************************)
(* Properties of output validation (SpecCheck).                            *)
(***************************************************************************)
\* the call has run output validation on the result of its input
OutputChecked(r) ==
    /\ r.itemlogs # <<>>
    /\ r.itemlogs[1] # <<>>
    /\ r.itemlogs[1][Len(r.itemlogs[1])].stage = "check_output"

\* C15: for a registered task output validation fails exactly when a
\* required key is absent from the postprocessed result, the keys it names
\* as missing are the required keys that are absent, and on failure the call
\* raises with no result; for a task absent from the output table it never
\* fails and the result goes to the caller.
C15_OutputValidation ==
    \A t \in Threads :
        OutputChecked(th[t]) =>
            LET r      == th[t]
                passed == r.itemlogs[1][Len(r.itemlogs[1])].ok
                absent == TASK_OUTPUTS(self.group_key) \ r.out.keys
            IN  IF self.group_key \in TaskNames
                THEN /\ passed <=> absent = {}
                     /\ r.missing = absent
                     /\ ~passed => /\ r.pc = "raised"
                                   /\ r.err = "ValueError:missing keys"
                                   /\ r.output = <<>>
                                   /\ r.ret = "none"
                     /\ passed => r.pc \in {"item_done", "returned"}
                ELSE /\ passed
                     /\ r.missing = {}
                     /\ r.pc \in {"item_done", "returned"}
                     /\ r.pc = "returned" => r.output = <<r.out>> /\ r.ret = "dict"

C15_Witness ==
    /\ self.group_key = "image-classification"
    /\ OutputChecked(th[Main])
    /\ th[Main].out.keys = {"labels"}
    /\ th[Main].missing = {"scores"}
    /\ th[Main].pc = "raised"

(***************************************************************************)
(* Properties of preparation under concurrent callers (SpecPrepare).       *)
(***************************************************************************)
\* C16: under every interleaving of the threads that invoke one pipeline no
\* model is moved to the device more than once in total, and no two threads
\* are in the placement body of prepare_model at the same time.
C16_PlacedOnceExclusive ==
    /\ \A i \in DOMAIN placed : placed[i] <= 1
    /\ \A t, u \in Threads :
          th[t].pc = "placing" /\ th[u].pc = "placing" => t = u

(***************************************************************************)
(* Properties of the pool's scheduling (SpecDist).                         *)
(***************************************************************************)
\* C17: each worker process runs the instantiation hook exactly once, for a
\* rank no other worker received: once the pipeline is constructed every
\* worker holds a shard and no two workers hold the same one, and a worker
\* that runs a forward hook holds a shard.
C17_OneTaskPerWorker ==
    /\ dist.pc = "constructed" =>
          \A w \in pool.workers :
              /\ pool.shard[w] # NoShard
              /\ \A v \in pool.workers : pool.shard[v] = pool.shard[w] => v = w
    /\ \A w \in pool.workers :
          pool.wstate[w].kind = "fwd" => pool.shard[w] # NoShard

\* C18: over any sequence of constructions in one process the start
\* strategy is set at most once, and every worker pool is created with the
\* spawn strategy in force, whatever was in force before the first
\* construction.
C18_SpawnInForce ==
    /\ dist.set_calls <= 1
    /\ PoolCreated => pool.started_with = "spawn"

(***************************************************************************)
(* Properties of preparation before forward (Spec).                        *)
(***************************************************************************)
\* C19: for a pipeline to which a model is bound, as a single handle or in a
\* list of any length, a call that is at its forward step or has run it
\* finds the prepared flag set and every bound torch model moved to the
\* device.
C19_PreparedBeforeForward ==
    \A t \in Threads :
        (/\ self.cls = "Pipeline"
         /\ th[t].pc = "forward" \/ ForwardRuns(th[t]) > 0
         /\ \E i \in DOMAIN self.models : self.models[i].kind = "Model")
        => /\ self._model_prepare
           /\ \A i \in DOMAIN self.models :
                 self.models[i] = TorchModel => placed[i] >= 1

(***************************************************************************)
(* Properties of the preparation lock (SpecPrepare).                       *)
(***************************************************************************)
\* C20: a thread whose call of prepare_model has ended, by a return or by
\* an exception raised in the placement of a model, does not hold the
\* preparation lock.
C20_LockFreeAtEnd ==
    \A t \in Threads : th[t].pc \notin PreparePcs => self.lock # t

(***************************************************************************)
(* Properties of model binding (SpecCtor).                                 *)
(***************************************************************************)
\* C12: a pipeline constructed with a list of handles has the single-handle
\* rule applied to each element, in order, no primary model and the
\* multi-model flag raised; one constructed with a single handle has exactly
\* that resolved handle in its model list and the flag not raised.
C12_ListBinding ==
    ctor.pc = "constructed" =>
        IF ctor.arg.isList
        THEN /\ Len(self.models) = Len(ctor.arg.many)
             /\ \A i \in 1..Len(ctor.arg.many) :
                   self.models[i] = initiate_single_model(ctor.arg.many[i]).val
             /\ self.model = NoneH
             /\ self.has_multiple_models
        ELSE /\ self.models = <<initiate_single_model(ctor.arg.one).val>>
             /\ self.model = self.models[1]
             /\ ~self.has_multiple_models

====
